---- MODULE Spec2Model ----
(***************************************************************************)
(* Verification model of the SPINE modelling and analytics scripts:        *)
(*   modules/modeling/src/gml_fixing.py          (identifier deduplicator) *)
(*   modules/modeling/src/link_ttl.py            (topology skeleton)       *)
(*   modules/modeling/src/remove_geometry.py     (geometry-triple stripper)*)
(*   modules/modeling/src/select_bot_spaces.py   (BOT extractor)           *)
(*   modules/modeling/src/terrain_gml_fixing.py  (relief reorderer)        *)
(*   modules/analytics/flink-cep/cep_job.py      (sensor streaming job)    *)
(* The scripts are independent programs; each has its own variables, its   *)
(* own initial condition and its own specification.  In the specification  *)
(* of one script the variables of the others stay at their idle values.    *)
(***************************************************************************)
EXTENDS Integers, Sequences, FiniteSets, TLC

VARIABLES
    \* ---- gml_fixing.py
    input,      \* gml:id values of //*[@gml:id] as parsed, in document order
    doc,        \* the same elements' gml:id values in the tree being edited
    seen,       \* the dictionary `seen` (its key set)
    pos,        \* position of the for loop (index of the next element)
    replaced,   \* number of el.set(...) calls made in this run
    generated,  \* uuid4 values drawn so far (over all runs)
    reports,    \* one record per finished run: what the run printed and did
    dpc,        \* "idle" | "loop" | "done"
    \* ---- cep_job.py
    job,        \* "idle" | "running" | "failed": the Flink job
    nread,      \* number of Kafka records read so far
    last,       \* the Kafka record read last (None before the first)
    buffer,     \* readings held by the CEP operator until the watermark passes
    assigned,   \* event times given out by the timestamp assigner
    late,       \* readings the CEP operator dropped as late
    watermark,  \* current event-time watermark at the CEP operator
    partial,    \* partial matches of the NFA (stage "temp" taken)
    processed,  \* readings the NFA has consumed, in event-time order
    matches,    \* for each alert, the positions in processed of its two events
    alerts,     \* what the sink received, in order
    \* ---- remove_geometry.py
    g,                  \* the rdflib graph g (a set of triples)
    g_in,               \* the graph as parsed from input_ttl
    graph_namespaces,   \* IFC namespaces declared in the parsed graph
    version,            \* detected schema name, or "None"
    geom_subjects,      \* the set geom_subjects
    remaining,          \* members of geom_subjects the removal loop has left
    spc,                \* "idle" | "parsed" | "removing" | "done" | "error"
    serialized,         \* what g.serialize wrote (None: no output file)
    \* ---- select_bot_spaces.py
    source_graph,       \* the parsed source graph
    output_graph,       \* the graph being filled
    type_todo,          \* rdf:type triples the outer loop has not visited
    bpc,                \* "idle" | "loop" | "done"
    output_ttl,         \* what output_graph.serialize wrote (None: nothing)
    \* ---- terrain_gml_fixing.py
    tree,        \* children of each TINRelief element of the tree, in
                 \* document order of the elements
    tree_in,     \* the same as parsed from input_filepath
    default_lod, \* the argument default_lod
    rpos,        \* position of the loop over the TINRelief elements
    fix_count,   \* the counter fix_count
    edits,       \* per processed element, what was done to it
    rpc,         \* "idle" | "loop" | "done" | "failed"
    out_file,    \* what tree.write wrote (None: no file)
    output_filepath,  \* the output path: <<directory part, file name>>
    \* ---- link_ttl.py
    lg,          \* the parsed graph g of extract_bot_skeleton
    skeleton,    \* bucket name -> set of <<proxy name, subject>>: the dicts
    stage,       \* which add_to_skeleton call is running (1..3), 4: returned
    visited,     \* subjects the running call's loop has handled
    warnings,    \* the "[Warning] Duplicate ID" lines printed, in order
    encounters   \* every (bucket, subject, name) the loops have seen, in order

dedupVars == <<input, doc, seen, pos, replaced, generated, reports, dpc>>
cepVars == <<job, nread, last, buffer, assigned, late, watermark, partial,
             processed, matches, alerts>>

stripVars == <<g, g_in, graph_namespaces, version, geom_subjects, remaining,
               spc, serialized>>
botVars == <<source_graph, output_graph, type_todo, bpc, output_ttl>>

reliefVars == <<tree, tree_in, default_lod, rpos, fix_count, edits, rpc,
                out_file, output_filepath>>
linkVars == <<lg, skeleton, stage, visited, warnings, encounters>>

vars == <<dedupVars, cepVars, stripVars, botVars, reliefVars, linkVars>>

\* What each script leaves alone: the variables of the other scripts
nonDedup == <<cepVars, stripVars, botVars, reliefVars, linkVars>>
nonCep == <<dedupVars, stripVars, botVars, reliefVars, linkVars>>
nonStrip == <<dedupVars, cepVars, botVars, reliefVars, linkVars>>
nonBot == <<dedupVars, cepVars, stripVars, reliefVars, linkVars>>
nonRelief == <<dedupVars, cepVars, stripVars, botVars, linkVars>>
nonLink == <<dedupVars, cepVars, stripVars, botVars, reliefVars>>

-----------------------------------------------------------------------------
(***************************************************************************)
(* Generic helpers                                                         *)
(***************************************************************************)
Range(s) == {s[i] : i \in 1..Len(s)}

\* All sequences over S of length 0..n
SeqsUpTo(S, n) == UNION {[1..k -> S] : k \in 0..n}

\* All subsets of U with at most k members
RECURSIVE SubsetsUpTo(_, _)
SubsetsUpTo(U, k) ==
    IF k = 0 THEN {{}}
    ELSE LET smaller == SubsetsUpTo(U, k - 1) IN
         smaller \cup {S \cup {x} : S \in smaller, x \in U}

-----------------------------------------------------------------------------
(***************************************************************************)
(* gml_fixing.py : CityGML identifier deduplicator                         *)
(***************************************************************************)
\* Largest number of elements carrying gml:id in an input document
MaxElems == 3

\* Identifier values are pairs <<prefix, rest>>: "GML_" + str(uuid) is
\* <<"GML_", uuid>>, any other identifier of a document is <<"ID_", n>>.
InputIds == {<<"ID_", 1>>, <<"ID_", 2>>, <<"GML_", 0>>}

\* uuid.uuid4(): a random 122-bit value.  Modelled as any value that has not
\* been drawn before and does not occur in the document (UUID uniqueness).
Uuid4Values(d, used) ==
    {u \in 1..(2 * MaxElems) : u \notin used /\ <<"GML_", u>> \notin Range(d)}

\* line 19: new_id = "GML_" + str(uuid.uuid4())
NewId(u) == <<"GML_", u>>

\* line 17, mutated: the membership test inverted
IsDuplicateInverted(old_id, seenKeys) == old_id \notin seenKeys

\* line 17: if old_id in seen
IsDuplicate(old_id, seenKeys) == old_id \in seenKeys

\* line 22, mutated: the identifier is not recorded
RecordSeenForgets(seenKeys, old_id) == seenKeys

\* line 22: seen[old_id] = True
RecordSeen(seenKeys, old_id) == seenKeys \cup {old_id}

\* line 28: len(seen)
SeenCount(seenKeys) == Cardinality(seenKeys)

DedupIdle ==
    /\ input = <<>> /\ doc = <<>> /\ seen = {} /\ pos = 0 /\ replaced = 0
    /\ generated = {} /\ reports = <<>> /\ dpc = "idle"

\* lines 7-13: the document is parsed, seen = {}
DedupInit ==
    /\ input \in SeqsUpTo(InputIds, MaxElems)
    /\ doc = input
    /\ seen = {}
    /\ pos = 1
    /\ replaced = 0
    /\ generated = {}
    /\ reports = <<>>
    /\ dpc = "loop"

\* lines 15-22: one iteration of the loop, on the element at position pos
DedupStep ==
    /\ dpc = "loop"
    /\ pos <= Len(doc)
    /\ LET old_id == doc[pos] IN
         IF IsDuplicate(old_id, seen)
         THEN \E u \in Uuid4Values(doc, generated) :
                /\ doc' = [doc EXCEPT ![pos] = NewId(u)]
                /\ generated' = generated \cup {u}
                /\ replaced' = replaced + 1
                /\ seen' = seen
         ELSE /\ seen' = RecordSeen(seen, old_id)
              /\ UNCHANGED <<doc, generated, replaced>>
    /\ pos' = pos + 1
    /\ UNCHANGED <<input, reports, dpc>>
    /\ UNCHANGED nonDedup

\* lines 25-28: the loop is over; write the tree and print len(seen)
DedupWrite ==
    /\ dpc = "loop"
    /\ pos > Len(doc)
    /\ reports' = Append(reports, [in |-> input, out |-> doc,
                                   seen_count |-> SeenCount(seen),
                                   replaced |-> replaced])
    /\ dpc' = "done"
    /\ UNCHANGED <<input, doc, seen, pos, replaced, generated>>
    /\ UNCHANGED nonDedup

\* The script run again with the written file as its input (lines 7-13)
DedupRerun ==
    /\ dpc = "done"
    /\ Len(reports) = 1
    /\ input' = doc
    /\ doc' = doc
    /\ seen' = {}
    /\ pos' = 1
    /\ replaced' = 0
    /\ dpc' = "loop"
    /\ UNCHANGED <<generated, reports>>
    /\ UNCHANGED nonDedup

-----------------------------------------------------------------------------
(***************************************************************************)
(* cep_job.py : sensor pattern-detection streaming job                     *)
(*                                                                         *)
(* Optional values (Python None) are sequences of length 0 or 1.           *)
(* Numbers read with float() are kept as integers: the inputs of the model *)
(* carry no fractional part.                                               *)
(***************************************************************************)
None == <<>>
Some(v) == <<v>>
IsNone(o) == o = <<>>
Get(o) == o[1]

\* Largest number of Kafka records the model feeds to the job
MaxMessages == 4

\* line 140: event.temp > 28.0
TempThreshold == 28
\* line 142: event.co2 > 1000.0
Co2Threshold == 1000
\* line 143: Time.minutes(5), in milliseconds
WithinMs == 300000
\* line 120: Duration.of_seconds(5), in milliseconds
MaxOutOfOrdernessMs == 5000

\* The watermark before any event time was seen (Long.MIN_VALUE in Flink);
\* every event time of the model is above it.
InitialWatermark == 0 - MaxOutOfOrdernessMs - 1

\* ---- Kafka records.  A record is described by what json.loads makes of it:
\*   json             "invalid" (not JSON), "array" (JSON, but no object),
\*                    "object"
\*   sensor_id        data.get('sensor_id', '')
\*   sensor_timestamp <<"absent", 0>>   key missing
\*                    <<"secs", n>>     {"secs_since_epoch": n}
\*                    <<"int", n>>      the integer n
\*                    <<"word", 0>>     a string that is no number
\*                    <<"secsnull", 0>> {"secs_since_epoch": null}
\*   message          <<"json", temp, co2>>  text that is a JSON object with
\*                                           optional numeric temp / co2
\*                    <<"text", tokens>>     text that is not JSON, split()
\*                    <<"nonstring", None, None>>  a value that is no text
\*                                           (a nested object, a number)
Record(j, sid, ts, msg) ==
    [json |-> j, sensor_id |-> sid, sensor_timestamp |-> ts, message |-> msg]

Payloads ==
    { <<"A", <<"json", Some(30), None>> >>,
      <<"B", <<"json", None, Some(1200)>> >> }

GoodTimestamps ==
    { <<"absent", 0>>, <<"secs", 60>>, <<"int", 400000>>, <<"secs", 800>> }

KafkaRecords ==
    { Record("object", p[1], t, p[2]) : p \in Payloads, t \in GoodTimestamps }
    \cup { Record("invalid", "", <<"absent", 0>>, <<"text", <<>> >>),
           Record("array", "", <<"absent", 0>>, <<"text", <<>> >>),
           Record("object", "A", <<"word", 0>>, <<"json", Some(30), None>>),
           Record("object", "A", <<"secsnull", 0>>, <<"json", Some(30), None>>),
           Record("object", "A", <<"secs", 60>>, <<"nonstring", None, None>>),
           Record("object", "A", <<"int", 60000>>, <<"text", <<"hello">> >>),
           Record("object", "C", <<"int", 60000>>,
                  <<"text", <<"Temperature:", "30C", "CO2:", "1200ppm">> >>),
           Record("object", "B", <<"int", 30000>>, <<"json", None, Some(500)>>),
           Record("object", "B", <<"secs", 60>>, <<"json", None, None>>) }

\* ---- the whitespace-separated tokens of a text message
\* "temperature" in part.lower()
HasTemperature(tok) == tok \in {"Temperature:", "temperature"}
\* "co2" in part.lower() or "co₂" in part.lower()
HasCo2(tok) == tok \in {"CO2:", "co2"}
\* float(tok.replace("°C", "").strip()): None stands for ValueError
TempFloat(tok) ==
    CASE tok = "30C" -> Some(30)    \* stands for "30" followed by the degree sign and C
      [] tok = "1200" -> Some(1200)
      [] OTHER -> None
\* float(tok.replace("ppm", "").strip()): None stands for ValueError
Co2Float(tok) ==
    CASE tok = "1200ppm" -> Some(1200)
      [] tok = "1200" -> Some(1200)
      [] OTHER -> None

\* lines 62-69: the last token after a "temperature" token that float() accepts
RECURSIVE ScanTemp(_, _, _)
ScanTemp(parts, i, acc) ==
    IF i > Len(parts) THEN acc
    ELSE IF HasTemperature(parts[i]) /\ i + 1 <= Len(parts)
              /\ ~IsNone(TempFloat(parts[i + 1]))
         THEN ScanTemp(parts, i + 1, TempFloat(parts[i + 1]))
         ELSE ScanTemp(parts, i + 1, acc)

\* lines 71-78: the same for CO2; parts[i+1] past the end raises IndexError
\* inside the inner try and is swallowed
RECURSIVE ScanCo2(_, _, _)
ScanCo2(parts, i, acc) ==
    IF i > Len(parts) THEN acc
    ELSE IF HasCo2(parts[i]) /\ i + 1 <= Len(parts)
              /\ ~IsNone(Co2Float(parts[i + 1]))
         THEN ScanCo2(parts, i + 1, Co2Float(parts[i + 1]))
         ELSE ScanCo2(parts, i + 1, acc)

\* lines 51-78: temp and co2 of the message text
ParseMessage(msg) ==
    IF msg[1] = "json"
    THEN [temp |-> msg[2], co2 |-> msg[3]]
    ELSE [temp |-> ScanTemp(msg[2], 1, None), co2 |-> ScanCo2(msg[2], 1, None)]

\* lines 42-48, mutated: secs_since_epoch taken as milliseconds
ParseTimestampSeconds(ts) ==
    CASE ts[1] = "absent" -> Some(0)
      [] ts[1] = "secs" -> Some(ts[2])
      [] ts[1] = "int" -> Some(ts[2])
      [] OTHER -> None

\* lines 42-48: the timestamp; None stands for an exception: int() of a
\* string that is no number (ValueError), None * 1000 (TypeError)
ParseTimestamp(ts) ==
    CASE ts[1] = "absent" -> Some(0)
      [] ts[1] = "secs" -> Some(ts[2] * 1000)
      [] ts[1] = "int" -> Some(ts[2])
      [] OTHER -> None

\* lines 34-83: JsonToSensorReadingMapFunction.map; None is `return None`.
\* With a message that is no text, json.loads raises TypeError (line 55) and
\* message.lower() in the handler raises AttributeError (line 62), which the
\* outer handler catches.
JsonToSensorReading(rec) ==
    IF rec.json # "object" THEN None
    ELSE IF IsNone(ParseTimestamp(rec.sensor_timestamp)) THEN None
    ELSE IF rec.message[1] = "nonstring" THEN None
    ELSE LET tc == ParseMessage(rec.message) IN
         Some([sensor_id |-> rec.sensor_id,
               timestamp |-> Get(ParseTimestamp(rec.sensor_timestamp)),
               temp |-> tc.temp,
               co2 |-> tc.co2])

\* line 132: lambda x: x is not None and x.temp is not None or x.co2 is not None
\* Python groups it (A and B) or C; with x None, C reads None.co2 and raises
\* AttributeError.
FilterLambda(x) ==
    IF IsNone(x) THEN "raise"
    ELSE IF ~IsNone(Get(x).temp) \/ ~IsNone(Get(x).co2) THEN "keep"
    ELSE "drop"

\* line 140: event.temp is not None and event.temp > 28.0
TempCondition(event) == ~IsNone(event.temp) /\ Get(event.temp) > TempThreshold

\* line 142: event.co2 is not None and event.co2 > 1000.0
Co2Condition(event) == ~IsNone(event.co2) /\ Get(event.co2) > Co2Threshold

\* line 143, mutated: the pattern without .within(...)
TimedOutNever(startTs, now) == FALSE

\* line 143 (.within): a partial match that started at startTs is discarded
\* once event time reaches startTs + window
TimedOut(startTs, now) == now - startTs >= WithinMs

\* lines 85-99: match_to_json
MatchToJson(start_event, end_event) ==
    [pattern |-> "high_temp_followed_by_high_co2",
     temp_sensor_id |-> start_event.sensor_id,
     temp_value |-> Get(start_event.temp),
     temp_timestamp |-> start_event.timestamp,
     co2_sensor_id |-> end_event.sensor_id,
     co2_value |-> Get(end_event.co2),
     co2_timestamp |-> end_event.timestamp,
     time_between_events_ms |-> end_event.timestamp - start_event.timestamp]

\* ---- the CEP operator (event time): readings wait in the buffer until the
\* watermark passes their timestamp, then go to the NFA in timestamp order,
\* readings of equal timestamp in arrival order.
RECURSIVE DueSorted(_, _)
DueSorted(buf, w) ==
    LET due == {i \in 1..Len(buf) : buf[i].timestamp <= w} IN
    IF due = {} THEN <<>>
    ELSE LET first == CHOOSE i \in due :
                        \A j \in due :
                            \/ buf[i].timestamp < buf[j].timestamp
                            \/ (buf[i].timestamp = buf[j].timestamp /\ i <= j)
             rest == [k \in 1..(Len(buf) - 1) |->
                        IF k < first THEN buf[k] ELSE buf[k + 1]]
         IN <<buf[first]>> \o DueSorted(rest, w)

RECURSIVE NotDue(_, _)
NotDue(buf, w) ==
    IF buf = <<>> THEN <<>>
    ELSE IF Head(buf).timestamp <= w THEN NotDue(Tail(buf), w)
         ELSE <<Head(buf)>> \o NotDue(Tail(buf), w)

\* advanceTime: discard the partial matches whose window is over
Prune(parts, now) ==
    SelectSeq(parts, LAMBDA p : ~TimedOut(p.event.timestamp, now))

\* lines 139-143, .next("co2"): strict contiguity.  A partial match is
\* completed by the very next event if that event satisfies the co2
\* condition, and is dropped by it otherwise.
CompletedBy(parts, event) ==
    IF Co2Condition(event) THEN parts ELSE <<>>

\* lines 139-140, Pattern.begin("temp").where(...): an event satisfying the
\* temp condition starts a partial match
StartedBy(event, idx) ==
    IF TempCondition(event) THEN <<[event |-> event, idx |-> idx]>> ELSE <<>>

\* lines 139-143, mutated: relaxed contiguity (.followed_by), a partial
\* match waits through events that do not satisfy the co2 condition
NfaProcessRelaxed(st, event) ==
    LET live == Prune(st.partial, event.timestamp)
        idx == Len(st.processed) + 1
        done == CompletedBy(live, event)
    IN [partial |-> (IF Co2Condition(event) THEN <<>> ELSE live)
                    \o StartedBy(event, idx),
        processed |-> Append(st.processed, event),
        matches |-> st.matches \o [k \in 1..Len(done) |-> <<done[k].idx, idx>>],
        alerts |-> st.alerts \o
                   [k \in 1..Len(done) |-> MatchToJson(done[k].event, event)]]

\* One event through the NFA.  st = [partial, processed, matches, alerts]
NfaProcess(st, event) ==
    LET live == Prune(st.partial, event.timestamp)
        idx == Len(st.processed) + 1
        done == CompletedBy(live, event)
    IN [partial |-> StartedBy(event, idx),
        processed |-> Append(st.processed, event),
        matches |-> st.matches \o [k \in 1..Len(done) |-> <<done[k].idx, idx>>],
        alerts |-> st.alerts \o
                   [k \in 1..Len(done) |-> MatchToJson(done[k].event, event)]]

RECURSIVE NfaRun(_, _)
NfaRun(st, events) ==
    IF events = <<>> THEN st
    ELSE NfaRun(NfaProcess(st, Head(events)), Tail(events))

CepIdle ==
    /\ job = "idle" /\ nread = 0 /\ last = None /\ buffer = <<>> /\ assigned = {}
    /\ late = {}
    /\ watermark = InitialWatermark /\ partial = <<>> /\ processed = <<>>
    /\ matches = <<>> /\ alerts = <<>>

\* lines 104-169: the job is built and started; nothing was read yet
CepInit ==
    /\ job = "running" /\ nread = 0 /\ last = None /\ buffer = <<>> /\ assigned = {}
    /\ late = {}
    /\ watermark = InitialWatermark /\ partial = <<>> /\ processed = <<>>
    /\ matches = <<>> /\ alerts = <<>>

\* lines 124-135 and 146: one Kafka record through map, filter, timestamp
\* assignment and into the CEP operator.  An exception of the filter lambda
\* fails the task, and with it the job (no restart strategy is configured).
CepIngest(rec) ==
    /\ job = "running"
    /\ nread < MaxMessages
    /\ nread' = nread + 1
    /\ last' = Some(rec)
    /\ LET x == JsonToSensorReading(rec)
           verdict == FilterLambda(x)
       IN CASE verdict = "raise" ->
                 /\ job' = "failed"
                 /\ UNCHANGED <<buffer, assigned, late>>
            [] verdict = "drop" ->
                 UNCHANGED <<job, buffer, assigned, late>>
            [] OTHER ->
                 /\ assigned' = assigned \cup {Get(x).timestamp}
                 /\ buffer' = IF Get(x).timestamp > watermark
                              THEN Append(buffer, Get(x))
                              ELSE buffer      \* late: dropped by the operator
                 /\ late' = IF Get(x).timestamp > watermark
                            THEN late
                            ELSE late \cup {Get(x)}
                 /\ UNCHANGED job
    /\ UNCHANGED <<watermark, partial, processed, matches, alerts>>
    /\ UNCHANGED nonCep

\* lines 120-121 and 133-135: a watermark of the bounded-out-of-orderness
\* strategy (an assigned event time minus 5 s minus 1 ms) reaches the CEP
\* operator; the readings it releases run through the NFA and the alerts go
\* to the sink (lines 146-165).
CepWatermark ==
    /\ job = "running"
    /\ \E t \in assigned :
         LET w == t - MaxOutOfOrdernessMs - 1
             st == NfaRun([partial |-> partial, processed |-> processed,
                           matches |-> matches, alerts |-> alerts],
                          DueSorted(buffer, w))
         IN /\ w > watermark
            /\ watermark' = w
            /\ buffer' = NotDue(buffer, w)
            /\ partial' = Prune(st.partial, w)
            /\ processed' = st.processed
            /\ matches' = st.matches
            /\ alerts' = st.alerts
    /\ UNCHANGED <<job, nread, last, assigned, late>>
    /\ UNCHANGED nonCep

CepNext == (\E rec \in KafkaRecords : CepIngest(rec)) \/ CepWatermark

-----------------------------------------------------------------------------
(***************************************************************************)
(* RDF graphs (remove_geometry.py, select_bot_spaces.py)                   *)
(*                                                                         *)
(* A term is a pair <<namespace, local name>>; a triple is <<s, p, o>>.    *)
(***************************************************************************)
RdfType == <<"rdf", "type">>

\* graph.triples((s, None, None))
TriplesOfSubject(graph, s) == {t \in graph : t[1] = s}

\* graph.triples((None, None, o))
TriplesOfObject(graph, o) == {t \in graph : t[3] = o}

\* graph.subjects(RDF.type, cls)
SubjectsOfType(graph, cls) ==
    {t[1] : t \in {u \in graph : u[2] = RdfType /\ u[3] = cls}}

-----------------------------------------------------------------------------
(***************************************************************************)
(* remove_geometry.py : geometry-triple stripper                           *)
(***************************************************************************)
\* Largest number of triples in an input graph of the stripper
MaxStripTriples == 3

\* lines 8-12: ifc_namespaces, in the order of the dict
IfcSchemaNames == <<"IFC2x3", "IFC4", "IFC4_3">>

\* lines 16-61, 65-155, 159, 161-165: geom_classes.  Of the class names, the
\* model keeps one that only the IFC2x3 list has, one that only the IFC4
\* list has and one that both have.
GeomClasses(v) ==
    CASE v = "IFC2x3" -> {"IfcCartesianPoint", "IfcPolyline"}
      [] v = "IFC4" -> {"IfcCartesianPoint", "IfcBlock"}
      [] v = "IFC4_3" -> {"IfcCartesianPoint", "IfcBlock"}

\* lines 180-184, mutated: IFC4 is taken when no IFC namespace is declared
DetectVersionDefaultIFC4(declared, i, found) ==
    IF declared = {} THEN "IFC4" ELSE CHOOSE v \in declared : TRUE

\* lines 180-184: the last schema of ifc_namespaces whose namespace the
\* graph declares; "None" if none is declared
RECURSIVE DetectVersion(_, _, _)
DetectVersion(declared, i, found) ==
    IF i > Len(IfcSchemaNames) THEN found
    ELSE DetectVersion(declared, i + 1,
                       IF IfcSchemaNames[i] \in declared
                       THEN IfcSchemaNames[i] ELSE found)

\* line 190: geom_uris = [IFC[cls] for cls in geom_classes[version]]
GeomUris(v) == {<<v, cls>> : cls \in GeomClasses(v)}

\* lines 193-196: the subjects typed with one of the geometry class URIs
CollectGeomSubjects(graph, uris) ==
    UNION {SubjectsOfType(graph, cls) : cls \in uris}

\* lines 201-202, mutated: only the triples with s as subject are removed
RemoveSubjectOnly(graph, s) == graph \ TriplesOfSubject(graph, s)

\* lines 201-202: g.remove((s, None, None)); g.remove((None, None, s))
RemoveSubject(graph, s) ==
    (graph \ TriplesOfSubject(graph, s))
        \ TriplesOfObject(graph \ TriplesOfSubject(graph, s), s)

\* The terms of the model's input graphs
StripNodes == {<<"inst", "n1">>, <<"inst", "n2">>, <<"inst", "n3">>}
StripClasses ==
    {<<"IFC4", "IfcCartesianPoint">>, <<"IFC4", "IfcPolyline">>,
     <<"IFC2x3", "IfcPolyline">>, <<"IFC4_3", "IfcBlock">>,
     <<"IFC4", "IfcWall">>}
StripTriples ==
    {<<s, RdfType, c>> : s \in StripNodes, c \in StripClasses}
    \cup {<<s, <<"ifc", "rel">>, o>> : s \in StripNodes, o \in StripNodes}

StripIdle ==
    /\ g = {} /\ g_in = {} /\ graph_namespaces = {} /\ version = "None"
    /\ geom_subjects = {} /\ remaining = {} /\ spc = "idle"
    /\ serialized = None

\* lines 170-173: the input is parsed
StripInit ==
    /\ g_in \in SubsetsUpTo(StripTriples, MaxStripTriples)
    /\ g = g_in
    /\ graph_namespaces \in SUBSET Range(IfcSchemaNames)
    /\ version = "None"
    /\ geom_subjects = {}
    /\ remaining = {}
    /\ spc = "parsed"
    /\ serialized = None

\* lines 175-197: schema detection and collection of the geometry subjects.
\* With no IFC namespace declared geom_classes[version] raises KeyError and
\* the function is left.
StripCollect ==
    /\ spc = "parsed"
    /\ version' = DetectVersion(graph_namespaces, 1, "None")
    /\ IF version' = "None"
       THEN /\ spc' = "error"
            /\ UNCHANGED <<geom_subjects, remaining>>
       ELSE /\ geom_subjects' = CollectGeomSubjects(g, GeomUris(version'))
            /\ remaining' = geom_subjects'
            /\ spc' = "removing"
    /\ UNCHANGED <<g, g_in, graph_namespaces, serialized>>
    /\ UNCHANGED nonStrip

\* lines 200-202: one iteration of the removal loop (a set is iterated in
\* no particular order)
StripRemove(s) ==
    /\ spc = "removing"
    /\ s \in remaining
    /\ g' = RemoveSubject(g, s)
    /\ remaining' = remaining \ {s}
    /\ UNCHANGED <<g_in, graph_namespaces, version, geom_subjects, spc,
                   serialized>>
    /\ UNCHANGED nonStrip

\* lines 203-206: the loop is over; the graph is serialized
StripSerialize ==
    /\ spc = "removing"
    /\ remaining = {}
    /\ serialized' = Some(g)
    /\ spc' = "done"
    /\ UNCHANGED <<g, g_in, graph_namespaces, version, geom_subjects,
                   remaining>>
    /\ UNCHANGED nonStrip

StripNext ==
    \/ StripCollect
    \/ \E s \in StripNodes : StripRemove(s)
    \/ StripSerialize

-----------------------------------------------------------------------------
(***************************************************************************)
(* select_bot_spaces.py : BOT space/storey extractor                       *)
(***************************************************************************)
\* Largest number of triples in a source graph of the extractor
MaxBotTriples == 3

\* line 9: BOT = Namespace("https://w3id.org/bot#")
Bot(name) == <<"https://w3id.org/bot#", name>>

\* line 31: target_classes
TargetClasses == {Bot("Site"), Bot("Building"), Bot("Space"), Bot("Storey")}

\* line 38, mutated: classes compared by local name
IsTargetByLocalName(o) == o[2] \in {c[2] : c \in TargetClasses}

\* line 38: if o in target_classes
IsTarget(o) == o \in TargetClasses

\* lines 42-47, mutated: only the type declaration is copied
CopyTypeOnly(out, src, t) == out \cup {t}

\* lines 42-47: the type declaration and every triple of its subject
CopyInstance(out, src, t) == (out \cup {t}) \cup TriplesOfSubject(src, t[1])

\* The terms of the model's source graphs
BotNodes == {<<"inst", "r1">>, <<"inst", "r2">>, <<"inst", "w1">>}
BotClasses ==
    {Bot("Space"), Bot("Storey"), Bot("Element"),
     <<"http://w3id.org/bot#", "Space">>}
BotTriples ==
    {<<s, RdfType, c>> : s \in BotNodes, c \in BotClasses}
    \cup {<<s, <<"bot", "adjacentElement">>, o>> : s \in BotNodes, o \in BotNodes}

BotIdle ==
    /\ source_graph = {} /\ output_graph = {} /\ type_todo = {}
    /\ bpc = "idle" /\ output_ttl = None

\* lines 19-27: the source is parsed, the output graph is empty; line 37:
\* the outer loop will visit every rdf:type triple
BotInit ==
    /\ source_graph \in SubsetsUpTo(BotTriples, MaxBotTriples)
    /\ output_graph = {}
    /\ type_todo = {t \in source_graph : t[2] = RdfType}
    /\ bpc = "loop"
    /\ output_ttl = None

\* lines 37-47: one iteration of the outer loop, inner loop included
BotVisit(t) ==
    /\ bpc = "loop"
    /\ t \in type_todo
    /\ output_graph' = IF IsTarget(t[3])
                       THEN CopyInstance(output_graph, source_graph, t)
                       ELSE output_graph
    /\ type_todo' = type_todo \ {t}
    /\ UNCHANGED <<source_graph, bpc, output_ttl>>
    /\ UNCHANGED nonBot

\* lines 50-52: the loop is over; the output graph is serialized
BotSerialize ==
    /\ bpc = "loop"
    /\ type_todo = {}
    /\ output_ttl' = Some(output_graph)
    /\ bpc' = "done"
    /\ UNCHANGED <<source_graph, output_graph, type_todo>>
    /\ UNCHANGED nonBot

BotNext == (\E t \in BotTriples : BotVisit(t)) \/ BotSerialize

-----------------------------------------------------------------------------
(***************************************************************************)
(* terrain_gml_fixing.py : terrain relief element reorderer                *)
(*                                                                         *)
(* A TINRelief element is the sequence of its child elements; a child is a *)
(* record [tag, id, text], id telling the element objects apart.           *)
(***************************************************************************)
\* Largest number of TINRelief elements in an input document
MaxBlocks == 2
\* Largest number of children of a TINRelief element in an input document
MaxChildren == 2

ChildTags == {"lod", "tin", "name"}

\* The children of a parsed TINRelief element whose tags are tags
ParsedBlock(tags) ==
    [i \in 1..Len(tags) |->
        [tag |-> tags[i], id |-> i,
         text |-> IF tags[i] = "lod" THEN "1" ELSE ""]]

\* element.find(tag): the first child with that tag; 0 stands for None
Find(children, tag) ==
    IF \E i \in 1..Len(children) : children[i].tag = tag
    THEN CHOOSE i \in 1..Len(children) :
            /\ children[i].tag = tag
            /\ \A j \in 1..(i - 1) : children[j].tag # tag
    ELSE 0

\* element.index(child)
IndexOf(children, child) ==
    CHOOSE i \in 1..Len(children) : children[i].id = child.id

\* line 53: etree.Element('{dem}lod'); line 54: its text
NewLod(text) == [tag |-> "lod", id |-> 0, text |-> text]

\* lines 57 / 67, mutated: tin_element.addnext(lod_element)
AddNext(children, anchor, el) ==
    LET at == IndexOf(children, anchor) IN
    SubSeq(children, 1, at) \o <<el>> \o SubSeq(children, at + 1, Len(children))

\* lines 57 / 67: tin_element.addprevious(lod_element)
AddPrevious(children, anchor, el) ==
    LET at == IndexOf(children, anchor) IN
    SubSeq(children, 1, at - 1) \o <<el>> \o SubSeq(children, at, Len(children))

\* line 64: element.remove(lod_element)
Remove(children, child) ==
    LET at == IndexOf(children, child) IN
    SubSeq(children, 1, at - 1) \o SubSeq(children, at + 1, Len(children))

\* line 60, mutated: any lod that is not at tin's place counts as misplaced
MisplacedIfNotEqual(lodIndex, tinIndex) == lodIndex # tinIndex

\* line 60: element.index(lod_element) > element.index(tin_element)
Misplaced(lodIndex, tinIndex) == lodIndex > tinIndex

\* lines 40-68: the loop body on one TINRelief element.  The result is the
\* element's children afterwards, what was done, and the fixes counted.
FixBlock(children, lodText) ==
    LET tin == Find(children, "tin")
        lod == Find(children, "lod")
    IN IF tin = 0
       THEN [children |-> children, edit |-> "skip", fixes |-> 0]
       ELSE IF lod = 0
       THEN [children |-> AddPrevious(children, children[tin], NewLod(lodText)),
             edit |-> "insert", fixes |-> 1]
       ELSE IF Misplaced(IndexOf(children, children[lod]),
                         IndexOf(children, children[tin]))
       THEN [children |-> AddPrevious(Remove(children, children[lod]),
                                      children[tin], children[lod]),
             edit |-> "move", fixes |-> 1]
       ELSE [children |-> children, edit |-> "none", fixes |-> 0]

\* Output paths: the one of the example call of line 96, which has no
\* directory part, and one inside a directory
OutputPaths == {<<"", "data_fixed.gml">>, <<"out", "data_fixed.gml">>}

\* line 74: os.path.dirname(output_filepath)
Dirname(path) == path[1]

\* line 74: os.makedirs('', exist_ok=True) raises FileNotFoundError
MakedirsRaises(dir) == dir = ""

ReliefIdle ==
    /\ tree = <<>> /\ tree_in = <<>> /\ default_lod = "" /\ rpos = 0
    /\ fix_count = 0 /\ edits = <<>> /\ rpc = "idle" /\ out_file = None
    /\ output_filepath = <<"", "">>

\* lines 28-35: the document is parsed, fix_count = 0
ReliefInit ==
    /\ tree_in \in SeqsUpTo({ParsedBlock(tags) :
                               tags \in SeqsUpTo(ChildTags, MaxChildren)},
                            MaxBlocks)
    /\ tree = tree_in
    /\ default_lod \in {"2", "3"}
    /\ rpos = 1
    /\ fix_count = 0
    /\ edits = <<>>
    /\ rpc = "loop"
    /\ out_file = None
    /\ output_filepath \in OutputPaths

\* lines 38-68: one iteration of the loop over //dem:TINRelief
ReliefProcess ==
    /\ rpc = "loop"
    /\ rpos <= Len(tree)
    /\ LET r == FixBlock(tree[rpos], default_lod) IN
         /\ tree' = [tree EXCEPT ![rpos] = r.children]
         /\ fix_count' = fix_count + r.fixes
         /\ edits' = Append(edits, r.edit)
    /\ rpos' = rpos + 1
    /\ UNCHANGED <<tree_in, default_lod, rpc, out_file, output_filepath>>
    /\ UNCHANGED nonRelief

\* lines 71-78: fixes were made; the directory is ensured and the tree is
\* written.  An exception of os.makedirs or tree.write is caught and
\* printed (lines 82-83): os.makedirs raises for an empty directory part,
\* and either call may fail on the file system.
ReliefSave ==
    /\ rpc = "loop"
    /\ rpos > Len(tree)
    /\ fix_count > 0
    /\ \/ /\ ~MakedirsRaises(Dirname(output_filepath))
          /\ out_file' = Some(tree)
          /\ rpc' = "done"
       \/ /\ out_file' = None
          /\ rpc' = "failed"
    /\ UNCHANGED <<tree, tree_in, default_lod, rpos, fix_count, edits,
                   output_filepath>>
    /\ UNCHANGED nonRelief

\* lines 79-80: nothing to correct, nothing is written
ReliefNoSave ==
    /\ rpc = "loop"
    /\ rpos > Len(tree)
    /\ fix_count = 0
    /\ rpc' = "done"
    /\ UNCHANGED <<tree, tree_in, default_lod, rpos, fix_count, edits,
                   out_file, output_filepath>>
    /\ UNCHANGED nonRelief

ReliefNext == ReliefProcess \/ ReliefSave \/ ReliefNoSave

-----------------------------------------------------------------------------
(***************************************************************************)
(* link_ttl.py : cross-domain topology skeleton                            *)
(*                                                                         *)
(* Strings that the code takes apart (URIs, predicate names, literal       *)
(* texts) are sequences of one-character strings.  A triple is             *)
(* <<subject, predicate, object>> with object = [kind, val], kind "uri"    *)
(* (URIRef) or "lit" (Literal).                                            *)
(***************************************************************************)
\* Largest number of triples in an input graph of the linker
MaxLinkTriples == 3

Uri(chars) == [kind |-> "uri", val |-> chars]
Lit(chars) == [kind |-> "lit", val |-> chars]

\* RDF.type, OWL.sameAs (stand-ins for the full URIs)
TypeP == <<"t", "y", "p", "e">>
SameAsP == <<"s", "a", "m", "e", "A", "s">>

\* BOT.Site, BOT.Building, BOT.Storey
BotSite == Uri(<<"S", "i", "t", "e">>)
BotBuilding == Uri(<<"B", "l", "d", "g">>)
BotStorey == Uri(<<"S", "t", "o", "r", "e", "y">>)

\* str.split(sep): the parts between the separators
RECURSIVE Split(_, _)
Split(str, sep) ==
    IF str = <<>> THEN << <<>> >>
    ELSE LET parts == Split(SubSeq(str, 1, Len(str) - 1), sep)
             c == str[Len(str)]
         IN IF c = sep
            THEN Append(parts, <<>>)
            ELSE [parts EXCEPT ![Len(parts)] = Append(@, c)]

\* parts[-1]
LastOf(parts) == parts[Len(parts)]

\* lines 28-31, mutated: the separators tried in the other order
LocalNameSlashFirst(raw_uri) ==
    IF "/" \in Range(raw_uri)
    THEN LastOf(Split(raw_uri, "/"))
    ELSE LastOf(Split(raw_uri, "#"))

\* lines 28-31: token = raw_uri.split('#')[-1] if '#' in raw_uri,
\* else raw_uri.split('/')[-1]
LocalName(raw_uri) ==
    IF "#" \in Range(raw_uri)
    THEN LastOf(Split(raw_uri, "#"))
    ELSE LastOf(Split(raw_uri, "/"))

\* str.lower(), on the letters the model's predicates use
LowerChar(c) ==
    CASE c = "N" -> "n" [] c = "A" -> "a" [] c = "M" -> "m" [] c = "E" -> "e"
      [] OTHER -> c
Lower(str) == [i \in 1..Len(str) |-> LowerChar(str[i])]

\* sub in str
Contains(sub, str) ==
    \E i \in 1..(Len(str) - Len(sub) + 1) :
        SubSeq(str, i, i + Len(sub) - 1) = sub

\* str.strip()
RECURSIVE LStrip(_)
LStrip(str) ==
    IF str # <<>> /\ Head(str) = " " THEN LStrip(Tail(str)) ELSE str
RECURSIVE RStrip(_)
RStrip(str) ==
    IF str # <<>> /\ str[Len(str)] = " "
    THEN RStrip(SubSeq(str, 1, Len(str) - 1)) ELSE str
Strip(str) == RStrip(LStrip(str))

Unknown == <<"U", "n", "k", "n", "o", "w", "n">>

\* line 23: graph.objects(subject, OWL.sameAs)
SameAsObjects(graph, subject) ==
    {t[3] : t \in {u \in graph : u[1] = subject /\ u[2] = SameAsP}}

\* line 34: the tokens that pass `if token:`
SameAsTokens(graph, subject) ==
    {LocalName(o.val) : o \in SameAsObjects(graph, subject)} \ {<<>>}

\* line 39: "name" in str(p).lower() and isinstance(o, Literal); line 40
NameValues(graph, subject) ==
    {Strip(t[3].val) :
        t \in {u \in graph : /\ u[1] = subject
                             /\ Contains(<<"n", "a", "m", "e">>, Lower(u[2]))
                             /\ u[3].kind = "lit"}}

\* lines 13-42: get_proxy_name.  rdflib yields the objects and the
\* predicate-object pairs of a subject in no specified order, so the result
\* is any of the values that can come first.
ProxyNames(graph, subject) ==
    IF SameAsTokens(graph, subject) # {} THEN SameAsTokens(graph, subject)
    ELSE IF NameValues(graph, subject) # {} THEN NameValues(graph, subject)
    ELSE {Unknown}

\* lines 66-68: the three add_to_skeleton calls, in order
Stages ==
    << [bucket |-> "sites", rdf_type |-> BotSite],
       [bucket |-> "buildings", rdf_type |-> BotBuilding],
       [bucket |-> "storeys", rdf_type |-> BotStorey] >>

\* line 55: g.subjects(RDF.type, rdf_type)
LinkSubjectsOfType(graph, rdf_type) ==
    {t[1] : t \in {u \in graph : u[2] = TypeP /\ u[3] = rdf_type}}

\* name in target_dict
HasName(target_dict, name) == \E e \in target_dict : e[1] = name

\* lines 60-61, mutated: the entry is written whether or not the name exists
PutLastWins(target_dict, name, subject) ==
    {e \in target_dict : e[1] # name} \cup {<<name, subject>>}

\* lines 60-61: if name not in target_dict: target_dict[name] = s
PutIfAbsent(target_dict, name, subject) ==
    IF HasName(target_dict, name) THEN target_dict
    ELSE target_dict \cup {<<name, subject>>}

\* The terms of the model's input graphs
LinkSubjects == {"s1", "s2", "s3"}
LinkProperties ==
    { <<TypeP, BotSite>>, <<TypeP, BotStorey>>,
      <<SameAsP, Uri(<<"a", "#", "b">>)>>,
      <<SameAsP, Uri(<<"a", "/", "b">>)>>,
      <<SameAsP, Uri(<<"a", "#">>)>>,
      <<SameAsP, Uri(<<"a", "/", "#", "b", "/", "c">>)>>,
      <<<<"h", "a", "s", "N", "a", "m", "e">>, Lit(<<" ", "L", " ">>)>>,
      <<<<"l", "a", "b", "e", "l">>, Lit(<<"L">>)>>,
      <<<<"n", "a", "m", "e">>, Uri(<<"a", "#", "b">>)>> }
LinkTriples == {<<s, po[1], po[2]>> : s \in LinkSubjects, po \in LinkProperties}

\* lines 44-51: the graph is parsed, the four buckets are empty
LinkInit ==
    /\ lg \in SubsetsUpTo(LinkTriples, MaxLinkTriples)
    /\ skeleton = [b \in {"sites", "buildings", "storeys", "spaces"} |-> {}]
    /\ stage = 1
    /\ visited = {}
    /\ warnings = <<>>
    /\ encounters = <<>>

\* lines 55-63: one iteration of the loop of the running add_to_skeleton
\* call, on subject s
LinkAdd(s) ==
    /\ stage \in 1..Len(Stages)
    /\ s \in LinkSubjectsOfType(lg, Stages[stage].rdf_type) \ visited
    /\ \E name \in ProxyNames(lg, s) :
         LET b == Stages[stage].bucket IN
         /\ skeleton' = [skeleton EXCEPT ![b] = PutIfAbsent(@, name, s)]
         /\ warnings' = IF HasName(skeleton[b], name)
                        THEN Append(warnings, [bucket |-> b, name |-> name])
                        ELSE warnings
         /\ encounters' = Append(encounters,
                                 [bucket |-> b, subject |-> s, name |-> name])
    /\ visited' = visited \cup {s}
    /\ UNCHANGED <<lg, stage>>
    /\ UNCHANGED nonLink

\* lines 66-73: the running call's loop is over; the next call starts, or
\* (after the third) the summary is printed and the skeleton returned
LinkStageDone ==
    /\ stage \in 1..Len(Stages)
    /\ LinkSubjectsOfType(lg, Stages[stage].rdf_type) \subseteq visited
    /\ stage' = stage + 1
    /\ visited' = {}
    /\ UNCHANGED <<lg, skeleton, warnings, encounters>>
    /\ UNCHANGED nonLink

LinkNext == (\E s \in LinkSubjects : LinkAdd(s)) \/ LinkStageDone

-----------------------------------------------------------------------------
(***************************************************************************)
(* Specifications                                                          *)
(***************************************************************************)
DedupNext == DedupStep \/ DedupWrite \/ DedupRerun

LinkIdle ==
    /\ lg = {} /\ skeleton = <<>> /\ stage = 0 /\ visited = {}
    /\ warnings = <<>> /\ encounters = <<>>

InitDedup ==
    DedupInit /\ CepIdle /\ StripIdle /\ BotIdle /\ ReliefIdle /\ LinkIdle

SpecDedup == InitDedup /\ [][DedupNext]_vars

InitCep ==
    CepInit /\ DedupIdle /\ StripIdle /\ BotIdle /\ ReliefIdle /\ LinkIdle

SpecCep == InitCep /\ [][CepNext]_vars

InitStrip ==
    StripInit /\ DedupIdle /\ CepIdle /\ BotIdle /\ ReliefIdle /\ LinkIdle

SpecStrip == InitStrip /\ [][StripNext]_vars

InitBot ==
    BotInit /\ DedupIdle /\ CepIdle /\ StripIdle /\ ReliefIdle /\ LinkIdle

SpecBot == InitBot /\ [][BotNext]_vars

InitRelief ==
    ReliefInit /\ DedupIdle /\ CepIdle /\ StripIdle /\ BotIdle /\ LinkIdle

SpecRelief == InitRelief /\ [][ReliefNext]_vars

InitLink ==
    LinkInit /\ DedupIdle /\ CepIdle /\ StripIdle /\ BotIdle /\ ReliefIdle

SpecLink == InitLink /\ [][LinkNext]_vars

-----------------------------------------------------------------------------
(***************************************************************************)
(* Properties: gml_fixing.py                                               *)
(***************************************************************************)
Distinct(s) == \A i, j \in 1..Len(s) : i # j => s[i] # s[j]

FirstOccurrence(s, i) == \A j \in 1..(i - 1) : s[j] # s[i]

\* C1: when a run of the deduplicator has finished, the gml:id values of the
\* output document are pairwise distinct, and every element that was the
\* first occurrence of its identifier value in the input still carries it.
DedupOutputUnique ==
    dpc = "done" =>
        /\ Distinct(doc)
        /\ Len(doc) = Len(input)
        /\ \A i \in 1..Len(input) :
               FirstOccurrence(input, i) => doc[i] = input[i]

\* C1 witness: a finished first run whose input repeated an identifier
\* twice and also held an identifier seen once
DedupRepeatsFixed ==
    /\ dpc = "done"
    /\ Len(reports) = 1
    /\ Len(input) = MaxElems
    /\ ~Distinct(input)
    /\ replaced >= 1
    /\ Cardinality(Range(input)) >= 2

\* C2 as stated: the second run on the first run's output replaces nothing
\* and reports the same seen-count as the first run.
DedupSecondRunSameCount ==
    Len(reports) = 2 =>
        /\ reports[2].replaced = 0
        /\ reports[2].seen_count = reports[1].seen_count

\* C2 amended: the second run on the first run's output replaces nothing and
\* leaves the document as it is; the seen-count it reports is the first
\* run's seen-count plus the number of identifiers the first run replaced.
DedupSecondRunCount ==
    Len(reports) = 2 =>
        /\ reports[2].in = reports[1].out
        /\ reports[2].replaced = 0
        /\ reports[2].out = reports[2].in
        /\ reports[2].seen_count
             = reports[1].seen_count + reports[1].replaced

\* C2 witness: both runs are over and the first one replaced identifiers
DedupSecondRunAfterFix ==
    /\ Len(reports) = 2
    /\ reports[1].replaced >= 1
    /\ reports[2].seen_count > reports[1].seen_count

(***************************************************************************)
(* Properties: cep_job.py                                                  *)
(***************************************************************************)
BothAbsent(r) == IsNone(r.temp) /\ IsNone(r.co2)

\* C3: a record whose structure cannot be parsed (map yields None) and a
\* reading with temperature and CO2 both absent are dropped by the filter:
\* neither reaches pattern detection, and the job keeps running, the filter
\* raising no error.
CepUnusableDroppedQuietly ==
    /\ \A r \in Range(buffer) \cup Range(processed) : ~BothAbsent(r)
    /\ ~IsNone(last) =>
         LET x == JsonToSensorReading(Get(last)) IN
         (IsNone(x) \/ BothAbsent(Get(x))) => job = "running"

\* The alerts that pair position i of processed with position j
AlertsOfPair(i, j) == {k \in 1..Len(alerts) : matches[k] = <<i, j>>}

\* The alerts whose temperature event is position i of processed
AlertsOfTemp(i) == {k \in 1..Len(alerts) : matches[k][1] = i}

\* C4: when the NFA consumes a reading with temperature > 28.0 at event time
\* T and, right after it, a reading with CO2 > 1000.0 at T + d, then for d
\* inside the 5-minute window exactly one alert is emitted for the pair,
\* with time_between_events_ms = d and the temp_ / co2_ fields taken from
\* the temperature / CO2 reading; for d beyond the window no alert is
\* emitted for that temperature reading.
CepAlertPerPair ==
    /\ Len(matches) = Len(alerts)
    /\ \A i \in 1..(Len(processed) - 1) :
         LET a == processed[i]
             b == processed[i + 1]
             d == b.timestamp - a.timestamp
         IN (/\ ~IsNone(a.temp) /\ Get(a.temp) > 28
             /\ ~IsNone(b.co2) /\ Get(b.co2) > 1000) =>
              /\ (d >= 0 /\ d < 300000) =>
                   /\ Cardinality(AlertsOfPair(i, i + 1)) = 1
                   /\ Cardinality(AlertsOfTemp(i)) = 1
                   /\ \A k \in AlertsOfPair(i, i + 1) :
                        /\ alerts[k].time_between_events_ms = d
                        /\ alerts[k].temp_sensor_id = a.sensor_id
                        /\ alerts[k].temp_value = Get(a.temp)
                        /\ alerts[k].temp_timestamp = a.timestamp
                        /\ alerts[k].co2_sensor_id = b.sensor_id
                        /\ alerts[k].co2_value = Get(b.co2)
                        /\ alerts[k].co2_timestamp = b.timestamp
              /\ d > 300000 => AlertsOfTemp(i) = {}

\* C4 witness: sensor A's temperature reading at T = 0 was followed by
\* sensor B's CO2 reading at T + 60000 and one alert went out for them
CepAlertAfterOneMinute ==
    /\ Len(processed) >= 2
    /\ processed[1].sensor_id = "A" /\ processed[1].timestamp = 0
    /\ processed[1].temp = Some(30)
    /\ processed[2].sensor_id = "B" /\ processed[2].timestamp = 60000
    /\ processed[2].co2 = Some(1200)
    /\ Len(alerts) = 1
    /\ alerts[1].time_between_events_ms = 60000
    /\ alerts[1].temp_sensor_id = "A" /\ alerts[1].co2_sensor_id = "B"

\* C4, second case reached: the CO2 reading came 400000 ms after the
\* temperature reading and nothing was emitted
CepNoAlertBeyondWindow ==
    /\ Len(processed) >= 2
    /\ TempCondition(processed[1]) /\ processed[1].timestamp = 0
    /\ Co2Condition(processed[2]) /\ processed[2].timestamp = 400000
    /\ alerts = <<>>

\* The reading map() made of the record read last
LastReading == JsonToSensorReading(Get(last))

\* The sensor_timestamp field of the record read last
LastTimestampField == Get(last).sensor_timestamp

\* C11 as stated: every message that is a JSON object yields a reading,
\* whose timestamp is secs_since_epoch * 1000 for a structured
\* sensor_timestamp, 0 for an absent one and the field's integer value in
\* every other case.
CepTimestampAlwaysParsed ==
    (~IsNone(last) /\ Get(last).json = "object") =>
        /\ ~IsNone(LastReading)
        /\ LastTimestampField[1] = "secs" =>
              Get(LastReading).timestamp = LastTimestampField[2] * 1000
        /\ LastTimestampField[1] = "absent" => Get(LastReading).timestamp = 0
        /\ LastTimestampField[1] = "int" =>
              Get(LastReading).timestamp = LastTimestampField[2]

\* C11 amended: a message that is a JSON object with a text message yields
\* a reading with timestamp secs_since_epoch * 1000 for a structured
\* sensor_timestamp with a numeric secs_since_epoch, 0 for an absent field
\* and the field's integer value for a field int() accepts, and that
\* timestamp is the event time assigned to the reading if the filter keeps
\* it; when the multiplication or int() raises (a string that is no number,
\* a null secs_since_epoch) map yields no reading.
CepTimestampParsed ==
    (/\ ~IsNone(last) /\ Get(last).json = "object"
     /\ Get(last).message[1] \in {"json", "text"}) =>
        /\ LastTimestampField[1] \in {"secs", "absent", "int"} =>
              /\ ~IsNone(LastReading)
              /\ Get(LastReading).timestamp =
                    (CASE LastTimestampField[1] = "secs" ->
                              LastTimestampField[2] * 1000
                       [] LastTimestampField[1] = "absent" -> 0
                       [] OTHER -> LastTimestampField[2])
              /\ ~BothAbsent(Get(LastReading)) =>
                    Get(LastReading).timestamp \in assigned
        /\ LastTimestampField[1] \in {"word", "secsnull"} =>
              IsNone(LastReading)

\* C11 witness: the record read last carried secs_since_epoch = 800 and its
\* reading went on with event time 800000
CepSecsTimestampAssigned ==
    /\ ~IsNone(last)
    /\ Get(last).json = "object"
    /\ LastTimestampField = <<"secs", 800>>
    /\ ~IsNone(LastReading)
    /\ 800000 \in assigned

\* C11, the refuting case reached: a JSON object whose sensor_timestamp is a
\* string that is no number was read, and map returned None for it
CepWordTimestampNoReading ==
    /\ ~IsNone(last)
    /\ Get(last).json = "object"
    /\ LastTimestampField[1] = "word"
    /\ IsNone(LastReading)

\* C12 as stated: no alert pairs a temperature reading with a CO2 reading
\* when a reading that passed the filter and does not satisfy the CO2
\* condition lies between the two in event-time order, be it a reading the
\* NFA consumed between them or one whose event time is between theirs.
CepNoAlertAcrossAnyReading ==
    \A k \in 1..Len(alerts) :
        LET i == matches[k][1]
            j == matches[k][2]
        IN /\ \A m \in (i + 1)..(j - 1) : Co2Condition(processed[m])
           /\ \A r \in late :
                (/\ processed[i].timestamp < r.timestamp
                 /\ r.timestamp < processed[j].timestamp) => Co2Condition(r)

\* C12 amended: no alert pairs a temperature reading with a CO2 reading when
\* a reading that does not satisfy the CO2 condition reached pattern
\* detection between the two, inside the 5-minute window or not; a reading
\* dropped as late never reaches pattern detection.
CepStrictContiguity ==
    /\ \A i \in 1..Len(processed), j \in 1..Len(processed) :
         (/\ i < j
          /\ \E m \in (i + 1)..(j - 1) : ~Co2Condition(processed[m])) =>
            AlertsOfPair(i, j) = {}
    /\ \A r \in late : r.timestamp <= watermark /\ r \notin Range(buffer)

\* C12 witness: a temperature reading at 0, a CO2 reading of 500 ppm at
\* 30000 and a CO2 reading of 1200 ppm at 60000 were consumed in this order,
\* all inside the window, and no alert went out
CepInterveningReadingNoAlert ==
    /\ Len(processed) = 3
    /\ TempCondition(processed[1]) /\ processed[1].timestamp = 0
    /\ processed[2].co2 = Some(500) /\ processed[2].timestamp = 30000
    /\ Co2Condition(processed[3]) /\ processed[3].timestamp = 60000
    /\ alerts = <<>>

\* C12, the refuting case reached: the 500 ppm reading at 30000 arrived after
\* the watermark had passed 30000 and was dropped, and the alert for the
\* temperature reading at 0 and the CO2 reading at 60000 went out
CepLateReadingBetweenAlerted ==
    /\ \E r \in late : r.timestamp = 30000 /\ r.co2 = Some(500)
    /\ \E k \in 1..Len(alerts) :
         /\ alerts[k].temp_timestamp = 0
         /\ alerts[k].co2_timestamp = 60000

(***************************************************************************)
(* Properties: remove_geometry.py                                          *)
(***************************************************************************)
\* The subjects of the input graph typed with a geometry class URI of the
\* resolved dialect
GeometrySubjectsOfInput ==
    {t[1] : t \in {u \in g_in : u[2] = RdfType /\ u[3] \in GeomUris(version)}}

\* C5: the serialized graph is the input graph minus every triple whose
\* subject or object is a geometry subject: none of those remains and every
\* other triple is kept.
StripRemovesExactlyGeometry ==
    spc = "done" =>
        /\ ~IsNone(serialized)
        /\ \A t \in Get(serialized) :
              /\ t \in g_in
              /\ t[1] \notin GeometrySubjectsOfInput
              /\ t[3] \notin GeometrySubjectsOfInput
        /\ \A t \in g_in :
              (t[1] \notin GeometrySubjectsOfInput
                 /\ t[3] \notin GeometrySubjectsOfInput)
                => t \in Get(serialized)

\* C5 witness: a finished run that removed a geometry subject's own triple
\* and a triple pointing at it, and kept another triple
StripRemovedAndKept ==
    /\ spc = "done"
    /\ \E t \in g_in : t[1] \in GeometrySubjectsOfInput
    /\ \E t \in g_in : /\ t[3] \in GeometrySubjectsOfInput
                       /\ t[1] \notin GeometrySubjectsOfInput
    /\ Get(serialized) # {}

\* C14: once schema detection has run, a graph that declares none of the
\* three IFC namespaces has left the function with the lookup error: the
\* version is undetermined, the graph still holds every parsed triple and
\* nothing was serialized; a graph that declares exactly one has that
\* dialect as version, and the geometry subjects are the subjects typed with
\* a class of that dialect's list in that dialect's namespace.
StripDialectResolved ==
    spc \notin {"idle", "parsed"} =>
        /\ graph_namespaces = {} =>
              /\ spc = "error"
              /\ version = "None"
              /\ g = g_in
              /\ serialized = None
        /\ \A v \in Range(IfcSchemaNames) :
              graph_namespaces = {v} =>
                 /\ spc \in {"removing", "done"}
                 /\ version = v
                 /\ geom_subjects =
                      {t[1] : t \in {u \in g_in :
                          /\ u[2] = RdfType
                          /\ u[3][1] = v
                          /\ u[3][2] \in GeomClasses(v)}}

\* C14 witness: a graph with a geometry-class instance but no IFC namespace
\* declaration was parsed and the run ended in the lookup error
StripAbortedUndetermined ==
    /\ spc = "error"
    /\ graph_namespaces = {}
    /\ \E t \in g_in : t[2] = RdfType /\ t[3][2] = "IfcCartesianPoint"
    /\ g = g_in
    /\ serialized = None

\* C14, second case reached: only the IFC2x3 namespace is declared and the
\* run finished having removed an IfcPolyline instance of that namespace
StripSingleDialectUsed ==
    /\ spc = "done"
    /\ graph_namespaces = {"IFC2x3"}
    /\ version = "IFC2x3"
    /\ \E t \in g_in : t[3] = <<"IFC2x3", "IfcPolyline">> /\ t[1] \in geom_subjects
    /\ serialized # None

(***************************************************************************)
(* Properties: select_bot_spaces.py                                        *)
(***************************************************************************)
\* The subjects the source declares to be a bot:Site, bot:Building,
\* bot:Space or bot:Storey
DeclaredBotInstances ==
    {t[1] : t \in {u \in source_graph :
                     /\ u[2] = <<"rdf", "type">>
                     /\ u[3][1] = "https://w3id.org/bot#"
                     /\ u[3][2] \in {"Site", "Building", "Space", "Storey"}}}

\* C6: the written graph is exactly the set of source triples whose subject
\* is declared an instance of one of the four classes.
BotOutputExact ==
    bpc = "done" =>
        /\ ~IsNone(output_ttl)
        /\ Get(output_ttl)
             = {t \in source_graph : t[1] \in DeclaredBotInstances}

\* C6 witness: a finished run that copied an instance's type declaration
\* and another of its triples, and left out a subject typed with a class of
\* the same local name in another namespace
BotCopiedAndSkipped ==
    /\ bpc = "done"
    /\ \E t \in Get(output_ttl) : t[2] # RdfType
    /\ \E t \in Get(output_ttl) : t[2] = RdfType
    /\ \E t \in source_graph :
          /\ t[3] = <<"http://w3id.org/bot#", "Space">>
          /\ t \notin Get(output_ttl)

(***************************************************************************)
(* Properties: terrain_gml_fixing.py                                       *)
(***************************************************************************)
\* The children of block c other than the element el, in order
Without(c, el) == SelectSeq(c, LAMBDA x : x # el)

LodsOf(c) == {k \in 1..Len(c) : c[k].tag = "lod"}

\* C7: every processed TINRelief block that has a tin child has a lod child
\* before its tin; a lod that stood after tin is the same element, moved
\* (nothing duplicated, the rest in place); a block without lod has
\* exactly one lod, immediately before tin, with text default_lod.
ReliefLodBeforeTin ==
    \A b \in 1..(rpos - 1) :
        LET c0 == tree_in[b]
            c == tree[b]
            T0 == Find(c0, "tin")
            L0 == Find(c0, "lod")
        IN T0 # 0 =>
            /\ \E i \in LodsOf(c) :
                  \A j \in 1..Len(c) : c[j].tag = "tin" => i < j
            /\ (L0 # 0 /\ L0 > T0) =>
                  /\ Len(c) = Len(c0)
                  /\ Range(c) = Range(c0)
                  /\ Without(c, c0[L0]) = Without(c0, c0[L0])
                  /\ \E k \in 1..(Len(c) - 1) :
                        c[k] = c0[L0] /\ c[k + 1] = c0[T0]
            /\ L0 = 0 =>
                  /\ Cardinality(LodsOf(c)) = 1
                  /\ \A k \in LodsOf(c) :
                        /\ c[k].text = default_lod
                        /\ k < Len(c) /\ c[k + 1] = c0[T0]
                        /\ Without(c, c[k]) = c0

\* C7 witness: the loop is over; one block had its lod after tin and
\* another had a tin but no lod
ReliefMovedAndInserted ==
    /\ rpc = "loop" /\ rpos > Len(tree)
    /\ \E b \in 1..Len(tree_in) :
          Find(tree_in[b], "lod") > Find(tree_in[b], "tin")
          /\ Find(tree_in[b], "tin") # 0
    /\ \E b \in 1..Len(tree_in) :
          Find(tree_in[b], "lod") = 0 /\ Find(tree_in[b], "tin") > 1

\* Whether the parsed block b has a tin and no lod before it
NeedsFix(b) ==
    /\ Find(tree_in[b], "tin") # 0
    /\ \/ Find(tree_in[b], "lod") = 0
       \/ Find(tree_in[b], "lod") > Find(tree_in[b], "tin")

\* C8: a block whose lod already precedes its tin is left as parsed, nothing
\* is detached or reinserted, and it is not counted as a fix.
ReliefOrderedBlockUntouched ==
    /\ \A b \in 1..(rpos - 1) :
          (/\ Find(tree_in[b], "lod") # 0
           /\ Find(tree_in[b], "tin") # 0
           /\ Find(tree_in[b], "lod") < Find(tree_in[b], "tin")) =>
              /\ tree[b] = tree_in[b]
              /\ edits[b] = "none"
    /\ fix_count = Cardinality({b \in 1..(rpos - 1) : NeedsFix(b)})

\* C8 witness: the loop is over, a block with lod before tin was processed
\* and so was a block that needed a fix
ReliefOrderedBlockSeen ==
    /\ rpc = "loop" /\ rpos > Len(tree)
    /\ \E b \in 1..Len(tree_in) :
          tree_in[b] = ParsedBlock(<<"lod", "tin">>)
    /\ fix_count = 1

\* C13: once fix_citygml_relief_order has returned, the output file holds
\* the modified tree if at least one block was fixed and no file was written
\* if none was; the function returns without raising in both cases.
ReliefWrittenIffFixed ==
    rpc \in {"done", "failed"} =>
        /\ fix_count > 0 => out_file = Some(tree)
        /\ fix_count = 0 => out_file = None

\* C13, the failing case reached: blocks were fixed, the output path has no
\* directory part, os.makedirs raised and nothing was written
ReliefBareNameNotWritten ==
    /\ rpc = "failed"
    /\ fix_count > 0
    /\ Dirname(output_filepath) = ""
    /\ out_file = None

\* C13, the intended case reached: the fixed tree was written to a path
\* inside a directory
ReliefWrittenInDirectory ==
    /\ rpc = "done" /\ fix_count > 0
    /\ Dirname(output_filepath) = "out" /\ out_file = Some(tree)

(***************************************************************************)
(* Properties: link_ttl.py                                                 *)
(***************************************************************************)
\* tok is what follows the last sep of raw
AfterLast(raw, sep, tok) ==
    \E i \in 1..Len(raw) :
        /\ raw[i] = sep
        /\ tok = SubSeq(raw, i + 1, Len(raw))
        /\ sep \notin Range(tok)

\* tok is the text after the last '#' of raw, or after the last '/' when
\* raw has no '#' (all of raw when it has neither)
IsLocalToken(raw, tok) ==
    IF "#" \in Range(raw) THEN AfterLast(raw, "#", tok)
    ELSE IF "/" \in Range(raw) THEN AfterLast(raw, "/", tok)
    ELSE tok = raw

\* trimmed is text without its leading and trailing blanks
IsTrimOf(text, trimmed) ==
    /\ (trimmed # <<>> => trimmed[1] # " " /\ trimmed[Len(trimmed)] # " ")
    /\ \E i \in 0..Len(text) :
          /\ SubSeq(text, i + 1, i + Len(trimmed)) = trimmed
          /\ i + Len(trimmed) <= Len(text)
          /\ \A k \in (1..i) \cup ((i + Len(trimmed) + 1)..Len(text)) :
                text[k] = " "

\* The owl:sameAs targets of subject s
SameAsTargets(s) == {t[3].val : t \in {u \in lg : u[1] = s /\ u[2] = SameAsP}}

\* The literal values of s under a predicate with "name" in its lowered name
NameLiterals(s) ==
    {t[3].val : t \in {u \in lg : /\ u[1] = s
                                  /\ u[3].kind = "lit"
                                  /\ Contains(<<"n", "a", "m", "e">>, Lower(u[2]))}}

\* C9 as stated: a node with an owl:sameAs triple gets the local token of
\* the target; the name property is used only if there is no owl:sameAs
\* triple; "Unknown" only when neither resolves.
ProxyNameSameAsAlwaysWins ==
    \A n \in 1..Len(encounters) :
        LET s == encounters[n].subject
            name == encounters[n].name
        IN /\ SameAsTargets(s) # {} =>
                \E raw \in SameAsTargets(s) : IsLocalToken(raw, name)
           /\ (SameAsTargets(s) = {} /\ NameLiterals(s) # {}) =>
                \E text \in NameLiterals(s) : IsTrimOf(text, name)
           /\ (SameAsTargets(s) = {} /\ NameLiterals(s) = {}) => name = Unknown

\* The owl:sameAs targets of s whose local token is not empty
TargetsWithToken(s) ==
    {raw \in SameAsTargets(s) : ~IsLocalToken(raw, <<>>)}

\* C9 amended: a node with an owl:sameAs target whose local token is not
\* empty gets the token of such a target; the name property is used only
\* if no owl:sameAs target has a non-empty token; "Unknown" is the result
\* when neither resolves.
ProxyNameFallbackOrder ==
    \A n \in 1..Len(encounters) :
        LET s == encounters[n].subject
            name == encounters[n].name
        IN /\ TargetsWithToken(s) # {} =>
                \E raw \in TargetsWithToken(s) : IsLocalToken(raw, name)
           /\ (TargetsWithToken(s) = {} /\ NameLiterals(s) # {}) =>
                \E text \in NameLiterals(s) : IsTrimOf(text, name)
           /\ (TargetsWithToken(s) = {} /\ NameLiterals(s) = {}) =>
                name = Unknown

\* C9 witness: a node whose only owl:sameAs target ends in '#' was named by
\* its name property
ProxyNameFromNameAfterEmptyToken ==
    \E n \in 1..Len(encounters) :
        /\ SameAsTargets(encounters[n].subject) = {<<"a", "#">>}
        /\ encounters[n].name = <<"L">>

\* Positions of encounters with bucket b and proxy name name
EncountersOf(b, name) ==
    {n \in 1..Len(encounters) :
        encounters[n].bucket = b /\ encounters[n].name = name}

WarningsOf(b, name) ==
    {n \in 1..Len(warnings) :
        warnings[n].bucket = b /\ warnings[n].name = name}

\* C10: each bucket maps every proxy name met so far to the first subject
\* that produced it, and every later subject with that name logged exactly
\* one warning.
SkeletonFirstSeenWins ==
    \A b \in DOMAIN skeleton :
        /\ \A e \in skeleton[b] :
              /\ EncountersOf(b, e[1]) # {}
              /\ \A n \in EncountersOf(b, e[1]) :
                    (\A m \in EncountersOf(b, e[1]) : n <= m)
                       => e[2] = encounters[n].subject
              /\ \A f \in skeleton[b] : f[1] = e[1] => f = e
        /\ \A n \in 1..Len(encounters) :
              encounters[n].bucket = b =>
                 /\ \E e \in skeleton[b] : e[1] = encounters[n].name
                 /\ Cardinality(WarningsOf(b, encounters[n].name))
                      = Cardinality(EncountersOf(b, encounters[n].name)) - 1

\* C10 witness: two distinct subjects of one class produced the same proxy
\* name, and one warning was logged
SkeletonCollision ==
    /\ Len(warnings) = 1
    /\ \E n, m \in 1..Len(encounters) :
          /\ n < m
          /\ encounters[n].bucket = encounters[m].bucket
          /\ encounters[n].name = encounters[m].name
          /\ encounters[n].subject # encounters[m].subject

====
